---- MODULE Spec2Model ----
(***************************************************************************)
(* Model of the three report scripts of copilot-standalone-activity:       *)
(*   copilot-metrics.py        ("metrics", sequential usage report)        *)
(*   copilot-metrics-teams.py  ("teams", thread-pool usage report)         *)
(*   copilot.py                ("copilot", seat/membership report)         *)
(* The remote API is the environment: every response it can give is an     *)
(* input drawn from a small set.                                           *)
(***************************************************************************)
EXTENDS Integers, Sequences, FiniteSets, TLC

VARIABLES
    script,        \* which script runs: "metrics", "teams" or "copilot"
    \* ---- one call of fetch_copilot_usage, followed request by request
    fpc,           \* "idle", "attempt", "returned", "raised"
    retry_count,   \* the local retry_count
    requests,      \* HTTP requests issued by the call so far
    result,        \* value returned by the call
    clock,         \* time.time(), in ticks of 1/TicksPerSec second
    nextResp,      \* what the server answers to the next request
    reqAt,         \* clock reading when the latest request was issued
    prevRL,        \* the rate-limit response that preceded the latest request
    lastRL,        \* the rate-limit response of the latest iteration
    seen,          \* kinds of responses received by the call so far
    \* ---- one call of a paginator
    pager,         \* which paginator runs
    pages,         \* the collection as the server serves it
    url,           \* page the next request asks for (0: no further page)
    acc,           \* records accumulated so far
    preq,          \* page requests issued so far
    ppc,           \* "idle", "loop", "returned", "raised"
    pret,          \* value returned by the paginator
    \* ---- one run of main()
    rpc,           \* position of main
    env,           \* environment variables that are set
    futures,       \* per discovered team: state and outcome of its detail fetch
    completed,     \* indices of resolved fetches, in completion order
    idx,           \* number of teams main has handled
    all_data,      \* the list all_data of copilot-metrics.py
    files,         \* CSV files written, by file key
    \* ---- one run of main() of copilot.py
    server,        \* what the API holds: teams, seats, members of each team
    teams_c,       \* the local teams of copilot.py main()
    copilot_seats, \* the local copilot_seats
    output_data,   \* the local output_data
    \* ---- the two fetch_copilot_usage side by side
    pair           \* the responses given so far and the state of each call

fetchVars == <<fpc, retry_count, requests, result, clock, nextResp, reqAt,
               prevRL, lastRL, seen>>
pageVars  == <<pager, pages, url, acc, preq, ppc, pret>>
runVars   == <<rpc, env, futures, completed, idx, all_data, files>>
copilotVars == <<server, teams_c, copilot_seats, output_data>>
vars      == <<script, fetchVars, pageVars, runVars, copilotVars, pair>>

----------------------------------------------------------------------------
(* Bounds of the model *)

TicksPerSec == 2     \* clock resolution: ticks per second
MaxOffset   == 2     \* X-RateLimit-Reset lies at most this far from "now"
MaxTeams    == 2     \* teams the enterprise has
MaxPages    == 3     \* pages a collection is served in
MaxPerPage  == 2     \* records on one page

(* Program constants *)

max_retries == 5
max_workers == 5

----------------------------------------------------------------------------
(* Values *)

None     == [tag |-> "None", data |-> <<>>]
Json(d)  == [tag |-> "json", data |-> d]
Raised(e) == [tag |-> e, data |-> <<>>]

NoData == "No Data"

Max(a, b) == IF a >= b THEN a ELSE b

RECURSIVE Pow2(_)
Pow2(n) == IF n = 0 THEN 1 ELSE 2 * Pow2(n - 1)

RECURSIVE SumSeq(_)
SumSeq(s) == IF s = <<>> THEN 0 ELSE Head(s) + SumSeq(Tail(s))

----------------------------------------------------------------------------
(* The usage payload of GET .../team/{id}/copilot/usage: a list of day     *)
(* entries (JSON objects). A JSON value is modelled by the text the csv    *)
(* module writes for it; an absent key is an absent record field.          *)

TotalKeys == <<"total_suggestions_count", "total_acceptances_count",
               "total_lines_suggested", "total_lines_accepted",
               "total_active_users", "total_chat_acceptances",
               "total_chat_turns", "total_active_chat_users">>

BreakdownKeys == <<"language", "editor", "suggestions_count",
                   "acceptances_count", "lines_suggested", "lines_accepted",
                   "active_users">>

Bd(lang, ed) ==
    [language |-> lang, editor |-> ed, suggestions_count |-> "21",
     acceptances_count |-> "22", lines_suggested |-> "23",
     lines_accepted |-> "24", active_users |-> "25"]

BdNoLanguage ==
    [editor |-> "vscode", suggestions_count |-> "21",
     acceptances_count |-> "22", lines_suggested |-> "23",
     lines_accepted |-> "24", active_users |-> "25"]

Day(d, bd) ==
    [day |-> d, total_suggestions_count |-> "11",
     total_acceptances_count |-> "12", total_lines_suggested |-> "13",
     total_lines_accepted |-> "14", total_active_users |-> "15",
     total_chat_acceptances |-> "16", total_chat_turns |-> "17",
     total_active_chat_users |-> "18", breakdown |-> bd]

DayNoBreakdownKey(d) ==
    [day |-> d, total_suggestions_count |-> "11",
     total_acceptances_count |-> "12", total_lines_suggested |-> "13",
     total_lines_accepted |-> "14", total_active_users |-> "15",
     total_chat_acceptances |-> "16", total_chat_turns |-> "17",
     total_active_chat_users |-> "18"]

DayNoChatTurns(d, bd) ==
    [day |-> d, total_suggestions_count |-> "11",
     total_acceptances_count |-> "12", total_lines_suggested |-> "13",
     total_lines_accepted |-> "14", total_active_users |-> "15",
     total_chat_acceptances |-> "16",
     total_active_chat_users |-> "18", breakdown |-> bd]

TwoBreakdowns == <<Bd("python", "vscode"), Bd("go", "vim")>>
OneBreakdown  == <<Bd("python", "vscode")>>

\* The payloads the server answers a successful detail request with.
Payloads ==
    { <<>>,                                              \* no usage at all
      <<Day("d1", TwoBreakdowns)>>,
      <<Day("d1", <<>>)>>,                               \* empty breakdown
      <<DayNoBreakdownKey("d1")>>,                       \* breakdown absent
      <<Day("d1", OneBreakdown), Day("d2", <<>>)>>,
      <<DayNoBreakdownKey("d1"), Day("d2", OneBreakdown)>>,
      <<DayNoChatTurns("d1", OneBreakdown)>>,            \* a total absent
      <<Day("d1", <<BdNoLanguage>>)>> }                  \* a category absent

\* The payloads the runs of main() are followed with: no usage, a day
\* with breakdown, a day with an empty breakdown, a day without the key
RunPayloads ==
    { <<>>,
      <<Day("d1", OneBreakdown)>>,
      <<Day("d1", <<>>)>>,
      <<DayNoBreakdownKey("d1")>> }

Has(obj, k) == k \in DOMAIN obj

Truthy(v) == v.tag = "json" /\ v.data # <<>>

----------------------------------------------------------------------------
(* HTTP responses of the detail endpoint.                                  *)
(* kind "exc": requests.get raised a requests.RequestException.            *)

Absent == "absent"

Resp(status, remaining, reset, body) ==
    [kind |-> "http", status |-> status, remaining |-> remaining,
     reset |-> reset, body |-> body]

ConnError == [kind |-> "exc", status |-> 0, remaining |-> Absent,
              reset |-> 0, body |-> <<>>]

Ok(body)      == Resp(200, Absent, 0, body)
RateLimit(T)  == Resp(403, "0", T, <<>>)
Forbidden(T)  == Resp(403, "5", T, <<>>)
ForbiddenBare == Resp(403, Absent, 0, <<>>)
ServerError   == Resp(500, Absent, 0, <<>>)

\* int(s) for the header texts the server sends
IntOf(s) == CASE s = "0" -> 0 [] s = "5" -> 5

\* The rate-limit signal as the API documents it
IsRateLimitSignal(r) ==
    r.kind = "http" /\ r.status = 403 /\ r.remaining = "0"

----------------------------------------------------------------------------
(* fetch_copilot_usage: one iteration of the retry loop.                   *)
(* An iteration yields                                                     *)
(*   retry_count  the counter after the iteration                          *)
(*   outcome      "continue", "return" or "raise"                          *)
(*   value        the value returned or the exception raised               *)
(*   waits        the rate-limit waits computed (seconds)                  *)
(*   sleeps       every time.sleep of the iteration, in order (seconds)    *)

Iter(rc, outcome, value, waits, sleeps) ==
    [retry_count |-> rc, outcome |-> outcome, value |-> value,
     waits |-> waits, sleeps |-> sleeps]

\* Mutant of WaitTime: the one-second margin is forgotten
WaitTimeNoMargin(reset_time, now) == Max(reset_time - now, 0)

\* wait_time = max(reset_time - int(time.time()), 0) + 1
WaitTime(reset_time, now) == Max(reset_time - now, 0) + 1

\* copilot-metrics.py: int(response.headers['X-RateLimit-Remaining']) == 0
RateLimitedM(r) ==
    r.status = 403 /\ r.remaining # Absent /\ IntOf(r.remaining) = 0

\* copilot-metrics-teams.py: response.headers['X-RateLimit-Remaining'] == '0'
RateLimitedT(r) ==
    r.status = 403 /\ r.remaining # Absent /\ r.remaining = "0"

\* copilot-metrics.py, body of "while retry_count < max_retries"
FetchIterM(rc, r, now) ==
    IF r.kind = "exc"
    THEN Iter(rc, "raise", Raised("RequestException"), <<>>, <<>>)
    ELSE IF r.status = 200
    THEN Iter(rc, "return", Json(r.body), <<>>, <<>>)
    ELSE IF RateLimitedM(r)
    THEN LET wait_time == WaitTime(r.reset, now)
         IN  Iter(rc + 1, "continue", None, <<wait_time>>, <<wait_time>>)
    ELSE IF rc < max_retries
    THEN Iter(rc + 1, "continue", None, <<>>, <<Pow2(rc)>>)
    ELSE Iter(rc, "return", None, <<>>, <<>>)

\* Mutant of FetchIterT: a rate-limit wait does not count as an attempt
FetchIterTFreeWait(rc, r, now) ==
    IF r.kind = "exc"
    THEN Iter(rc + 1, "continue", None, <<>>, <<Pow2(rc + 1)>>)
    ELSE IF r.status = 200
    THEN Iter(rc, "return", Json(r.body), <<>>, <<>>)
    ELSE IF RateLimitedT(r)
    THEN LET wait_time == WaitTime(r.reset, now)
         IN  Iter(rc, "continue", None, <<wait_time>>, <<wait_time>>)
    ELSE Iter(rc + 1, "continue", None, <<>>, <<Pow2(rc + 1)>>)

\* copilot-metrics-teams.py, body of "while retry_count < max_retries"
FetchIterT(rc, r, now) ==
    IF r.kind = "exc"
    THEN Iter(rc + 1, "continue", None, <<>>, <<Pow2(rc + 1)>>)
    ELSE IF r.status = 200
    THEN Iter(rc, "return", Json(r.body), <<>>, <<>>)
    ELSE IF RateLimitedT(r)
    THEN LET wait_time == WaitTime(r.reset, now)
         IN  Iter(rc + 1, "continue", None, <<wait_time>>,
                  <<wait_time, Pow2(rc + 1)>>)
    ELSE Iter(rc + 1, "continue", None, <<>>, <<Pow2(rc + 1)>>)

FetchIter(scr, rc, r, now) ==
    IF scr = "metrics" THEN FetchIterM(rc, r, now) ELSE FetchIterT(rc, r, now)

\* Mutant of LoopGoesOn: the bound is off by one
LoopGoesOnInclusive(rc) == rc <= max_retries

\* The loop condition, and the "return None" after the loop
LoopGoesOn(rc) == rc < max_retries

\* Position of the call after an iteration
AfterIter(it) ==
    CASE it.outcome = "raise"  -> "raised"
      [] it.outcome = "return" -> "returned"
      [] OTHER -> IF LoopGoesOn(it.retry_count) THEN "attempt" ELSE "returned"

\* int(time.time()) for a clock in ticks
NowSec(c) == c \div TicksPerSec

NoRL == [seen |-> FALSE, T |-> 0, now |-> 0, at |-> 0, waits |-> <<>>,
         slept |-> 0]

ResponseKind(r) ==
    CASE r.kind = "exc"         -> "exc"
      [] r.status = 200         -> "ok"
      [] IsRateLimitSignal(r)   -> "rl"
      [] OTHER                  -> "other"

\* Responses the server may give to a request issued at clock c
DetailResponses(c) ==
    {Ok(<<>>), Ok(<<Day("d1", OneBreakdown)>>),
     ForbiddenBare, ServerError, ConnError}
    \cup {RateLimit(NowSec(c) + d) : d \in (-MaxOffset)..MaxOffset}
    \cup {Forbidden(NowSec(c) + MaxOffset)}

FetchInit ==
    /\ fpc = "attempt"
    /\ retry_count = 0
    /\ requests = 0
    /\ result = None
    /\ clock \in 0..(TicksPerSec - 1)
    /\ nextResp \in DetailResponses(clock)
    /\ reqAt = 0
    /\ prevRL = NoRL
    /\ lastRL = NoRL
    /\ seen = {}

FetchIdle ==
    /\ fpc = "idle"
    /\ retry_count = 0
    /\ requests = 0
    /\ result = None
    /\ clock = 0
    /\ nextResp = ServerError
    /\ reqAt = 0
    /\ prevRL = NoRL
    /\ lastRL = NoRL
    /\ seen = {}

\* One pass through the loop body: the request, the branch taken on the
\* response, the sleeps, and the loop test that follows.
FetchStep ==
    /\ fpc = "attempt"
    /\ LoopGoesOn(retry_count)
    /\ LET r  == nextResp
           it == FetchIter(script, retry_count, r, NowSec(clock))
       IN  /\ requests' = requests + 1
           /\ reqAt' = clock
           /\ prevRL' = lastRL
           /\ lastRL' = IF IsRateLimitSignal(r)
                        THEN [seen |-> TRUE, T |-> r.reset,
                              now |-> NowSec(clock), at |-> clock,
                              waits |-> it.waits,
                              slept |-> SumSeq(it.sleeps)]
                        ELSE NoRL
           /\ seen' = seen \cup {ResponseKind(r)}
           /\ retry_count' = it.retry_count
           /\ clock' = clock + SumSeq(it.sleeps) * TicksPerSec
           /\ fpc' = AfterIter(it)
           /\ result' = IF AfterIter(it) = "attempt" THEN result ELSE it.value
    /\ nextResp' \in DetailResponses(clock')
    /\ UNCHANGED <<script, pair, copilotVars, pageVars, runVars>>

----------------------------------------------------------------------------
(* The collection endpoints. The server serves a collection as a sequence  *)
(* of pages; a page that is not the last carries a Link header with        *)
(* rel="next" whose url is the next page. Urls are page numbers.           *)

TeamRec(i) == [id |-> i, name |-> ToString(i), slug |-> ToString(i)]

NoLinks == [k \in {} |-> 0]

RECURSIVE Offset(_, _)
Offset(sizes, i) == IF i <= 1 THEN 0 ELSE sizes[i - 1] + Offset(sizes, i - 1)

Total(sizes) == Offset(sizes, Len(sizes) + 1)

PageOf(sizes, sts, i) ==
    [status |-> sts[i],
     body   |-> IF sts[i] = 200
                THEN [j \in 1..sizes[i] |-> TeamRec(Offset(sizes, i) + j)]
                ELSE <<>>,
     links  |-> IF i < Len(sizes) THEN [next |-> [url |-> i + 1]]
                ELSE NoLinks]

Collection(sizes, sts) == [i \in 1..Len(sizes) |-> PageOf(sizes, sts, i)]

PageCounts == 1..MaxPages

Collections ==
    UNION { { Collection(sizes, sts) :
                sizes \in [1..n -> 0..MaxPerPage], sts \in [1..n -> {200, 500}] }
            : n \in PageCounts }

\* What the server answers to a request for page p
Serve(coll, p) ==
    IF p \in 1..Len(coll) THEN coll[p]
    ELSE [status |-> 200, body |-> <<>>, links |-> NoLinks]

Pagers == {"fetch_teams_m", "fetch_teams_t", "get_teams",
           "get_team_memberships", "get_copilot_billing_seats"}

\* response.json() as the endpoint shapes it: the seats endpoint wraps
\* its list in an object
JsonOf(pgr, page) ==
    IF pgr = "get_copilot_billing_seats"
    THEN [total_seats |-> Len(page.body), seats |-> page.body]
    ELSE page.body

\* response.links.get('next', {}).get('url'); 0 stands for None
NextUrl(page) ==
    IF Has(page.links, "next") THEN page.links.next.url ELSE 0

IdName(recs) == [j \in 1..Len(recs) |-> [id |-> recs[j].id, name |-> recs[j].name]]
Ids(recs)    == [j \in 1..Len(recs) |-> recs[j].id]

PIter(u, a, outcome, value) ==
    [url |-> u, acc |-> a, outcome |-> outcome, value |-> value]

\* copilot-metrics.py fetch_teams, body of "while url"
PageIterM(u, a, page) ==
    IF page.status = 200
    THEN LET teams == a \o IdName(JsonOf("fetch_teams_m", page))
             nxt   == NextUrl(page)
         IN  IF nxt # 0 THEN PIter(nxt, teams, "continue", <<>>)
             ELSE PIter(nxt, teams, "return", teams)
    ELSE PIter(u, a, "return", a)

\* Mutant of PageIterT: the page parameter is not advanced
PageIterTSamePage(u, a, page) ==
    IF page.status # 200
    THEN PIter(u, a, "return", <<>>)
    ELSE LET teams == a \o JsonOf("fetch_teams_t", page)
         IN  IF Has(page.links, "next")
             THEN PIter(u, teams, "continue", <<>>)
             ELSE PIter(u, teams, "return", Ids(teams))

\* copilot-metrics-teams.py fetch_teams, body of "while True"
PageIterT(u, a, page) ==
    IF page.status # 200
    THEN PIter(u, a, "return", <<>>)
    ELSE LET teams == a \o JsonOf("fetch_teams_t", page)
         IN  IF Has(page.links, "next")
             THEN PIter(u + 1, teams, "continue", <<>>)
             ELSE PIter(u, teams, "return", Ids(teams))

\* copilot.py get_teams, get_team_memberships, get_copilot_billing_seats
PageIterC(pgr, u, a, page) ==
    IF page.status = 200
    THEN LET data == JsonOf(pgr, page)
             list == a \o (IF pgr = "get_copilot_billing_seats"
                           THEN data.seats ELSE data)
             nxt  == NextUrl(page)
         IN  IF nxt # 0 THEN PIter(nxt, list, "continue", <<>>)
             ELSE PIter(nxt, list, "return", list)
    ELSE PIter(u, a, "raise", <<>>)

PageIter(pgr, u, a, page) ==
    CASE pgr = "fetch_teams_m" -> PageIterM(u, a, page)
      [] pgr = "fetch_teams_t" -> PageIterT(u, a, page)
      [] OTHER                 -> PageIterC(pgr, u, a, page)

PagerOf(scr) ==
    CASE scr = "metrics" -> "fetch_teams_m"
      [] scr = "teams"   -> "fetch_teams_t"
      [] OTHER           -> "get_teams"

ScriptOf(pgr) ==
    CASE pgr = "fetch_teams_m" -> "metrics"
      [] pgr = "fetch_teams_t" -> "teams"
      [] OTHER                 -> "copilot"

PageIdle ==
    /\ pager = "fetch_teams_m"
    /\ pages = <<>>
    /\ url = 0
    /\ acc = <<>>
    /\ preq = 0
    /\ ppc = "idle"
    /\ pret = <<>>

\* The paginator is entered: url is the first page, the list is empty
PageEnter(pgr, coll) ==
    /\ pager = pgr
    /\ pages = coll
    /\ url = 1
    /\ acc = <<>>
    /\ preq = 0
    /\ ppc = "loop"
    /\ pret = <<>>

\* One pass through the paginator's loop body
PageStep ==
    /\ ppc = "loop"
    /\ LET it == PageIter(pager, url, acc, Serve(pages, url))
       IN  /\ preq' = preq + 1
           /\ url' = it.url
           /\ acc' = it.acc
           /\ ppc' = CASE it.outcome = "continue" -> "loop"
                       [] it.outcome = "return"   -> "returned"
                       [] OTHER                   -> "raised"
           /\ pret' = it.value
    /\ UNCHANGED <<pager, pages>>

----------------------------------------------------------------------------
(* write_to_csv. A file is its header row and its data rows; a cell is the *)
(* text csv.writer writes. A writer that fails keeps the rows written      *)
(* before the failure (the "with" block closes the file); the exception    *)
(* that ended the write is kept with the file.                             *)

HeaderM == <<"team_id", "team_name", "day">> \o TotalKeys \o BreakdownKeys
HeaderT == <<"team_id", "day">> \o TotalKeys \o BreakdownKeys

Get(obj, k, default) == IF Has(obj, k) THEN obj[k] ELSE default

Zeros(n) == [i \in 1..n |-> "0"]

Writer(rows, err) == [rows |-> rows, err |-> err]

HasAll(obj, keys) == \A i \in 1..Len(keys) : Has(obj, keys[i])

\* copilot-metrics.py: [usage_entry.get(k, 0) for k in [...]]
TotalsM(ue) == [i \in 1..Len(TotalKeys) |-> Get(ue, TotalKeys[i], "0")]

\* copilot-metrics.py: [breakdown.get(k, "No Data" if k in [...] else 0) ...]
BreakdownM(bd) ==
    [i \in 1..Len(BreakdownKeys) |->
        Get(bd, BreakdownKeys[i],
            IF BreakdownKeys[i] \in {"language", "editor"} THEN NoData ELSE "0")]

\* copilot-metrics.py: the placeholder row of a team without data
PlaceholderRowM(team_id, team_name) ==
    <<ToString(team_id), team_name>> \o <<NoData>> \o Zeros(16)

\* copilot-metrics.py: the row of a day without breakdown
NoBreakdownRowM(team_id, team_name, ue) ==
    <<ToString(team_id), team_name, ue.day>> \o TotalsM(ue)
        \o <<NoData, NoData>> \o Zeros(7)

\* copilot-metrics.py: the row of one breakdown entry
BreakdownRowM(team_id, team_name, ue, bd) ==
    <<ToString(team_id), team_name, ue.day>> \o TotalsM(ue) \o BreakdownM(bd)

\* copilot-metrics.py: "for breakdown in usage_entry['breakdown']"
RECURSIVE WriteBreakdownsM(_, _, _, _, _)
WriteBreakdownsM(team_id, team_name, ue, w, bds) ==
    IF bds = <<>> THEN w
    ELSE WriteBreakdownsM(team_id, team_name, ue,
            Writer(Append(w.rows,
                          BreakdownRowM(team_id, team_name, ue, Head(bds))), ""),
            Tail(bds))

\* copilot-metrics.py: body of "for usage_entry in entry['data']"
WriteDayM(team_id, team_name, w, ue) ==
    IF ~Has(ue, "day") THEN Writer(w.rows, "KeyError")
    ELSE IF Has(ue, "breakdown") /\ ue.breakdown # <<>>
    THEN WriteBreakdownsM(team_id, team_name, ue, w, ue.breakdown)
    ELSE Writer(Append(w.rows, NoBreakdownRowM(team_id, team_name, ue)), "")

\* copilot-metrics.py: "for usage_entry in entry['data']", left at a failure
RECURSIVE WriteDaysM(_, _, _, _)
WriteDaysM(team_id, team_name, w, days) ==
    IF days = <<>> \/ w.err # "" THEN w
    ELSE WriteDaysM(team_id, team_name,
                    WriteDayM(team_id, team_name, w, Head(days)), Tail(days))

\* copilot-metrics.py: body of "for entry in data"
WriteEntryM(w, entry) ==
    IF entry.data.tag = "NoData"
    THEN Writer(Append(w.rows,
                       PlaceholderRowM(entry.team_id, entry.team_name)), "")
    ELSE WriteDaysM(entry.team_id, entry.team_name, w, entry.data.data)

\* copilot-metrics.py: "for entry in data", left at a failure
RECURSIVE WriteEntriesM(_, _)
WriteEntriesM(w, data) ==
    IF data = <<>> \/ w.err # "" THEN w
    ELSE WriteEntriesM(WriteEntryM(w, Head(data)), Tail(data))

\* copilot-metrics.py write_to_csv(data)
WriteCsvM(data) == WriteEntriesM(Writer(<<>>, ""), data)

\* copilot-metrics-teams.py: the row of one breakdown entry
BreakdownRowT(team_id, ue, bd) ==
    <<ToString(team_id), ue.day>>
        \o [i \in 1..Len(TotalKeys) |-> ue[TotalKeys[i]]]
        \o [i \in 1..Len(BreakdownKeys) |-> bd[BreakdownKeys[i]]]

\* copilot-metrics-teams.py: "for breakdown in entry['breakdown']"
RECURSIVE WriteBreakdownsT(_, _, _, _)
WriteBreakdownsT(team_id, ue, w, bds) ==
    IF bds = <<>> \/ w.err # "" THEN w
    ELSE WriteBreakdownsT(team_id, ue,
            IF HasAll(Head(bds), BreakdownKeys)
            THEN Writer(Append(w.rows, BreakdownRowT(team_id, ue, Head(bds))), "")
            ELSE Writer(w.rows, "KeyError"),
            Tail(bds))

\* copilot-metrics-teams.py: body of "for entry in data"
WriteDayT(team_id, w, ue) ==
    IF ~(Has(ue, "day") /\ HasAll(ue, TotalKeys) /\ Has(ue, "breakdown"))
    THEN Writer(w.rows, "KeyError")
    ELSE WriteBreakdownsT(team_id, ue, w, ue.breakdown)

\* copilot-metrics-teams.py: "for entry in data", left at a failure
RECURSIVE WriteDaysT(_, _, _)
WriteDaysT(team_id, w, data) ==
    IF data = <<>> \/ w.err # "" THEN w
    ELSE WriteDaysT(team_id, WriteDayT(team_id, w, Head(data)), Tail(data))

\* copilot-metrics-teams.py write_to_csv(team_id, data)
WriteCsvT(team_id, data) == WriteDaysT(team_id, Writer(<<>>, ""), data)

NoFiles == [k \in {} |-> 0]

\* Mutant of Written: every write goes to one file, whatever its key
WrittenShared(fs, key, header, w) ==
    [k \in DOMAIN fs \cup {0} |->
        [header |-> header, rows |-> w.rows, raised |-> w.err]]

\* open(output_file, mode='w'): the file is created or overwritten
Written(fs, key, header, w) ==
    [k \in DOMAIN fs \cup {key} |->
        IF k = key THEN [header |-> header, rows |-> w.rows, raised |-> w.err]
        ELSE fs[k]]

----------------------------------------------------------------------------
(* A whole call of fetch_copilot_usage against a server that answers the   *)
(* first k requests of the call with one response and the later ones with  *)
(* another: at once, with the last attempt, or never within the attempts.  *)
(* The run of main() does not follow the clock: the sleeps of a call       *)
(* change no value it returns.                                             *)

Behaviours ==
    [k : {0, max_retries - 1, max_retries},
     first : {ServerError, RateLimit(0), ConnError},
     then : {Ok(p) : p \in RunPayloads} \cup {ServerError}]

Answer(b, n) == IF n <= b.k THEN b.first ELSE b.then

RECURSIVE FetchLoop(_, _, _, _)
FetchLoop(scr, rc, n, b) ==
    IF ~LoopGoesOn(rc) THEN [value |-> None, requests |-> n]
    ELSE LET it == FetchIter(scr, rc, Answer(b, n + 1), 0)
         IN  IF AfterIter(it) = "attempt"
             THEN FetchLoop(scr, it.retry_count, n + 1, b)
             ELSE [value |-> it.value, requests |-> n + 1]

\* fetch_copilot_usage(enterprise, team_id, token)
FetchCopilotUsage(scr, b) == FetchLoop(scr, 0, 0, b)

----------------------------------------------------------------------------
(* The fetch_copilot_usage of copilot-metrics.py and that of               *)
(* copilot-metrics-teams.py, called side by side: the k-th request of      *)
(* either call is answered with the k-th response of one sequence.         *)

Call(pc, rc, n, value) ==
    [pc |-> pc, retry_count |-> rc, requests |-> n, result |-> value]

\* Mutant of CallStep: the call goes on without counting the attempt
CallStepUncounted(scr, c, r, now) ==
    IF c.pc # "attempt" THEN c
    ELSE LET it == FetchIter(scr, c.retry_count, r, now)
         IN  IF it.outcome = "continue" /\ scr = "metrics"
             THEN Call("attempt", c.retry_count, c.requests + 1, c.result)
             ELSE Call(AfterIter(it), it.retry_count, c.requests + 1,
                       IF AfterIter(it) = "attempt" THEN c.result
                       ELSE it.value)

\* One pass of a call through its loop body, if the call still goes on
CallStep(scr, c, r, now) ==
    IF c.pc # "attempt" THEN c
    ELSE LET it == FetchIter(scr, c.retry_count, r, now)
         IN  Call(AfterIter(it), it.retry_count, c.requests + 1,
                  IF AfterIter(it) = "attempt" THEN c.result ELSE it.value)

\* The responses without exception: 200, rate-limit signal, other failure
PairResponses ==
    {Ok(<<>>), Ok(<<Day("d1", OneBreakdown)>>)}
    \cup {RateLimit(T) : T \in 0..MaxOffset}
    \cup {Forbidden(MaxOffset), ForbiddenBare, ServerError}

PairIdle ==
    pair = [responses |-> <<>>, m |-> Call("idle", 0, 0, None),
            t |-> Call("idle", 0, 0, None)]

PairStep ==
    /\ pair.m.pc = "attempt" \/ pair.t.pc = "attempt"
    /\ \E r \in PairResponses : \E nowM, nowT \in 0..MaxOffset :
         pair' = [responses |-> Append(pair.responses, r),
                  m |-> CallStep("metrics", pair.m, r, nowM),
                  t |-> CallStep("teams", pair.t, r, nowT)]
    /\ UNCHANGED <<script, fetchVars, pageVars, runVars, copilotVars>>

----------------------------------------------------------------------------
(* main()                                                                  *)

EnvNames == {"ENTERPRISE_ID", "ENTERPRISE_SLUG", "GITHUB_TOKEN"}

\* The variables main() requires
Required(scr) ==
    IF scr = "metrics" THEN {"ENTERPRISE_SLUG", "GITHUB_TOKEN"}
    ELSE {"ENTERPRISE_ID", "ENTERPRISE_SLUG", "GITHUB_TOKEN"}

\* Mutant of Future: the future is not tied to the team it was made for
FutureOfFirst(team, state, value) ==
    [team |-> 1, state |-> state, value |-> value]

Future(team, state, value) ==
    [team |-> team, state |-> state, value |-> value]

\* copilot-metrics.py: the entry main() appends to all_data for a team
Entry(team, value) ==
    [team_id |-> team.id, team_name |-> team.name,
     data |-> IF Truthy(value) THEN value ELSE [tag |-> "NoData", data |-> <<>>]]

\* The identifier of a record of the list fetch_teams returned
TeamId(scr, t) == IF scr = "metrics" THEN t.id ELSE t
TeamName(scr, t) == IF scr = "metrics" THEN t.name ELSE ""

CopilotIdle ==
    /\ server = <<>>
    /\ teams_c = <<>>
    /\ copilot_seats = <<>>
    /\ output_data = <<>>

RunIdle ==
    /\ rpc = "idle"
    /\ env = {}
    /\ futures = <<>>
    /\ completed = <<>>
    /\ idx = 0
    /\ all_data = <<>>
    /\ files = NoFiles

\* Collections of at most MaxTeams teams: no team at all (one empty page),
\* or pages that hold a team each at least
SmallCollections ==
    UNION { { Collection(sizes, sts) :
                sizes \in {z \in [1..n -> 0..MaxPerPage] :
                              /\ Total(z) <= MaxTeams
                              /\ n > 1 => \A i \in 1..n : z[i] >= 1},
                sts \in [1..n -> {200, 500}] }
            : n \in PageCounts }

RunInit ==
    /\ script \in {"metrics", "teams"}
    /\ rpc = "start"
    /\ env \in {EnvNames} \cup {EnvNames \ {v} : v \in EnvNames}
    /\ futures = <<>>
    /\ completed = <<>>
    /\ idx = 0
    /\ all_data = <<>>
    /\ files = NoFiles
    /\ pager = PagerOf(script)
    /\ pages \in SmallCollections
    /\ url = 0
    /\ acc = <<>>
    /\ preq = 0
    /\ ppc = "idle"
    /\ pret = <<>>
    /\ FetchIdle
    /\ CopilotIdle
    /\ PairIdle

\* main(): the configuration check and the call of fetch_teams
MainStart ==
    /\ rpc = "start"
    /\ IF Required(script) \subseteq env
       THEN /\ rpc' = "teams"
            /\ url' = 1
            /\ ppc' = "loop"
            /\ UNCHANGED <<acc, preq, pret>>
       ELSE /\ rpc' = "done"
            /\ UNCHANGED <<url, acc, preq, ppc, pret>>
    /\ UNCHANGED <<script, pair, copilotVars,
                   fetchVars, pager, pages, env, futures, completed,
                   idx, all_data, files>>

\* fetch_teams at work inside main()
MainPage ==
    /\ rpc = "teams"
    /\ PageStep
    /\ UNCHANGED <<script, pair, copilotVars, fetchVars, runVars>>

\* copilot-metrics.py: "if not teams: return", else the loop is entered
MainTeamsM ==
    /\ script = "metrics"
    /\ rpc = "teams"
    /\ ppc = "returned"
    /\ IF pret = <<>>
       THEN rpc' = "done" /\ futures' = futures
       ELSE /\ rpc' = "fetch"
            /\ futures' = [i \in 1..Len(pret) |->
                              Future(pret[i], "pending", None)]
    /\ UNCHANGED <<script, pair, copilotVars,
                   fetchVars, pageVars, env, completed, idx,
                   all_data, files>>

\* Mutant of NextPosM: the loop is left at the first team without data
NextPosMStopOnNone(usage_data, i, n) ==
    IF usage_data.tag = "RequestException" THEN "crashed"
    ELSE IF i = n \/ ~Truthy(usage_data) THEN "write" ELSE "fetch"

\* copilot-metrics.py: where main() stands after the fetch of team i of n:
\* an exception of the call ends the run, the last team leads to the write
NextPosM(usage_data, i, n) ==
    IF usage_data.tag = "RequestException" THEN "crashed"
    ELSE IF i = n THEN "write" ELSE "fetch"

\* copilot-metrics.py: one pass of "for team in teams"
MainFetchM ==
    /\ script = "metrics"
    /\ rpc = "fetch"
    /\ idx < Len(futures)
    /\ \E b \in Behaviours :
         LET i    == idx + 1
             team == futures[i].team
             out  == FetchCopilotUsage(script, b)
             usage_data == out.value
         IN  /\ futures' = [futures EXCEPT
                              ![i] = Future(team, "resolved", usage_data)]
             /\ completed' = Append(completed, i)
             /\ rpc' = NextPosM(usage_data, i, Len(futures))
             /\ IF usage_data.tag = "RequestException"
                THEN UNCHANGED <<idx, all_data>>
                ELSE /\ idx' = i
                     /\ all_data' = Append(all_data, Entry(team, usage_data))
    /\ UNCHANGED <<script, pair, copilotVars, fetchVars, pageVars, env, files>>

\* copilot-metrics.py: write_to_csv(all_data)
MainWriteM ==
    /\ script = "metrics"
    /\ rpc = "write"
    /\ LET w == WriteCsvM(all_data)
       IN  /\ files' = Written(files, 0, HeaderM, w)
           /\ rpc' = IF w.err = "" THEN "done" ELSE "crashed"
    /\ UNCHANGED <<script, pair, copilotVars,
                   fetchVars, pageVars, env, futures, completed, idx,
                   all_data>>

\* copilot-metrics-teams.py: every team is submitted to the pool
MainSubmitT ==
    /\ script = "teams"
    /\ rpc = "teams"
    /\ ppc = "returned"
    /\ futures' = [i \in 1..Len(pret) |-> Future(pret[i], "pending", None)]
    /\ rpc' = "collect"
    /\ UNCHANGED <<script, pair, copilotVars,
                   fetchVars, pageVars, env, completed, idx,
                   all_data, files>>

Running == {i \in 1..Len(futures) : futures[i].state = "running"}

\* A pool thread takes the oldest queued call
WorkerStart(i) ==
    /\ script = "teams"
    /\ rpc = "collect"
    /\ futures[i].state = "pending"
    /\ \A j \in 1..(i - 1) : futures[j].state # "pending"
    /\ Cardinality(Running) < max_workers
    /\ futures' = [futures EXCEPT ![i].state = "running"]
    /\ UNCHANGED <<script, pair, copilotVars,
                   fetchVars, pageVars, rpc, env, completed, idx,
                   all_data, files>>

\* The call of a pool thread ends: the future holds its value or exception
WorkerFinish(i) ==
    /\ script = "teams"
    /\ rpc = "collect"
    /\ futures[i].state = "running"
    /\ \E b \in Behaviours :
         LET out == FetchCopilotUsage(script, b)
         IN  futures' = [futures EXCEPT
                           ![i] = Future(futures[i].team, "resolved",
                                         out.value)]
    /\ completed' = Append(completed, i)
    /\ UNCHANGED <<script, pair, copilotVars,
                   fetchVars, pageVars, rpc, env, idx, all_data, files>>

\* copilot-metrics-teams.py: one pass of "for future in as_completed(...)"
MainCollectT ==
    /\ script = "teams"
    /\ rpc = "collect"
    /\ idx < Len(completed)
    /\ LET i          == completed[idx + 1]
           team_id    == futures[i].team
           usage_data == futures[i].value
       IN  files' = IF Truthy(usage_data)
                    THEN Written(files, team_id, HeaderT,
                                 WriteCsvT(team_id, usage_data.data))
                    ELSE files
    /\ idx' = idx + 1
    /\ UNCHANGED <<script, pair, copilotVars,
                   fetchVars, pageVars, rpc, env, futures, completed,
                   all_data>>

\* copilot-metrics-teams.py: as_completed is exhausted, the pool shuts down
MainExitT ==
    /\ script = "teams"
    /\ rpc = "collect"
    /\ idx = Len(futures)
    /\ rpc' = "done"
    /\ UNCHANGED <<script, pair, copilotVars,
                   fetchVars, pageVars, env, futures, completed, idx,
                   all_data, files>>

----------------------------------------------------------------------------
(* Specifications *)

\* One call of fetch_copilot_usage, followed on the clock
InitFetch ==
    /\ script \in {"metrics", "teams"}
    /\ FetchInit
    /\ PageIdle
    /\ RunIdle
    /\ CopilotIdle
    /\ PairIdle

NextFetch == FetchStep

SpecFetch == InitFetch /\ [][NextFetch]_vars

\* One call of a paginator
InitPage ==
    /\ \E pgr \in Pagers, coll \in Collections :
         /\ script = ScriptOf(pgr)
         /\ PageEnter(pgr, coll)
    /\ FetchIdle
    /\ RunIdle
    /\ CopilotIdle
    /\ PairIdle

Paginate ==
    /\ PageStep
    /\ UNCHANGED <<script, pair, copilotVars, fetchVars, runVars>>

NextPage == Paginate

SpecPage == InitPage /\ [][NextPage]_vars

\* write_to_csv applied to what the detail fetches returned: main() from
\* the point where every fetch has resolved
FetchValues == {Json(p) : p \in Payloads} \cup {None}

InitWrite ==
    /\ script \in {"metrics", "teams"}
    /\ \E n \in 1..MaxTeams : \E vals \in [1..n -> FetchValues] :
         /\ futures = [i \in 1..n |->
                          Future(IF script = "metrics"
                                 THEN [id |-> i, name |-> ToString(i)] ELSE i,
                                 "resolved", vals[i])]
         /\ completed = [i \in 1..n |-> i]
         /\ all_data = IF script = "metrics"
                       THEN [i \in 1..n |-> Entry(TeamRec(i), vals[i])]
                       ELSE <<>>
         /\ idx = IF script = "metrics" THEN n ELSE 0
    /\ rpc = IF script = "metrics" THEN "write" ELSE "collect"
    /\ env = EnvNames
    /\ files = NoFiles
    /\ PageIdle
    /\ FetchIdle
    /\ CopilotIdle
    /\ PairIdle

NextWrite ==
    \/ MainWriteM
    \/ MainCollectT
    \/ MainExitT

SpecWrite == InitWrite /\ [][NextWrite]_vars

\* One run of main() of a usage-report script
Init == RunInit

Next ==
    \/ MainStart
    \/ MainPage
    \/ MainTeamsM
    \/ MainFetchM
    \/ MainWriteM
    \/ MainSubmitT
    \/ \E i \in 1..Len(futures) : WorkerStart(i)
    \/ \E i \in 1..Len(futures) : WorkerFinish(i)
    \/ MainCollectT
    \/ MainExitT

Spec == Init /\ [][Next]_vars

----------------------------------------------------------------------------
(* copilot.py: the seat report                                             *)

ENTERPRISE_SLUG == "comviva"

\* JSON null
Null == "null"

\* A record of the memberships endpoint
Member(login, type) == [login |-> login, type |-> type]

\* A record of the billing-seats endpoint
Seat(login, at, editor) ==
    [assignee |-> [login |-> login], last_activity_at |-> at,
     last_activity_editor |-> editor]

SeatNoAssignee ==
    [last_activity_at |-> "t0", last_activity_editor |-> "vim"]

\* Member lists a team can have: none, one user, two users, a member of
\* another type followed by a user without seat and a user
MemberLists ==
    { <<>>,
      <<Member("a", "User")>>,
      <<Member("b", "User"), Member("a", "User")>>,
      <<Member("a", "Bot"), Member("c", "User"), Member("b", "User")>> }

\* Seat lists of the enterprise: none, one active seat, two seats of one
\* login of which the first has no activity, a seat without assignee
SeatLists ==
    { <<>>,
      <<Seat("a", "t1", "vscode")>>,
      <<Seat("a", Null, Null), Seat("a", "t2", "vscode"),
        Seat("b", "t3", "")>>,
      <<SeatNoAssignee, Seat("b", "t3", "jetbrains")>> }

\* A list cut into pages of per records
RECURSIVE Split(_, _)
Split(list, per) ==
    IF Len(list) <= per THEN <<list>>
    ELSE <<SubSeq(list, 1, per)>>
             \o Split(SubSeq(list, per + 1, Len(list)), per)

\* The list as the server serves it, every page request answered with 200
Paged(list, per) ==
    LET chunks == Split(list, per)
    IN  [i \in 1..Len(chunks) |->
            [status |-> 200, body |-> chunks[i],
             links  |-> IF i < Len(chunks) THEN [next |-> [url |-> i + 1]]
                        ELSE NoLinks]]

\* An endpoint that answers with a failure status
Failing(st) == <<[status |-> st, body |-> <<>>, links |-> NoLinks]>>

PageSizes == {1, MaxPerPage}

SeatPages ==
    {Paged(l, per) : l \in SeatLists, per \in PageSizes} \cup {Failing(500)}

MemberPages ==
    {Paged(l, per) : l \in MemberLists, per \in PageSizes}
        \cup {Failing(500)}

\* The team collections of copilot.py: every page served, or none
TeamPages ==
    {c \in SmallCollections : \A i \in 1..Len(c) : c[i].status = 200}
        \cup {Failing(500)}

\* The records of a collection, in page order
RECURSIVE Records(_)
Records(coll) ==
    IF coll = <<>> THEN <<>>
    ELSE Head(coll).body \o Records(Tail(coll))

Slugs(coll) == {Records(coll)[i].slug : i \in 1..Len(Records(coll))}

\* What the API holds for a token it accepts
Servers ==
    UNION { [teams : {t}, seats : SeatPages,
             members : [Slugs(t) -> MemberPages]] : t \in TeamPages }

\* What the API answers to "Bearer None"
Unauthorized ==
    [teams |-> Failing(401), seats |-> Failing(401),
     members |-> [sl \in {} |-> Failing(401)]]

\* The variable copilot.py reads from the environment
EnvNamesC == {"GH_ADMIN_TOKEN"}

\* Truth value of a JSON text or null
IsTrue(v) == v # Null /\ v # ""

\* seat.get('assignee', {}).get('login') == username
Assigned(seat, username) ==
    /\ Has(seat, "assignee")
    /\ Has(seat.assignee, "login")
    /\ seat.assignee.login = username

\* next((seat for seat in copilot_seats if ...), None): the position of the
\* first seat assigned to username at or after position i, 0 standing for
\* None
RECURSIVE FirstSeat(_, _, _)
FirstSeat(seats, username, i) ==
    IF i > Len(seats) THEN 0
    ELSE IF Assigned(seats[i], username) THEN i
    ELSE FirstSeat(seats, username, i + 1)

\* Mutant of CopilotInfo: the last seat assigned to username is taken
CopilotInfoLast(seats, username) ==
    LET hits == {i \in 1..Len(seats) : Assigned(seats[i], username)}
    IN  IF hits = {} THEN 0 ELSE CHOOSE i \in hits : \A j \in hits : j <= i

CopilotInfo(seats, username) == FirstSeat(seats, username, 1)

\* The dictionary main() appends to output_data
OutputRow(team, username, seat) ==
    [enterprise_name    |-> ENTERPRISE_SLUG,
     team_name          |-> team.name,
     user_name          |-> username,
     copilot_activity   |-> seat.last_activity_at,
     last_active_editor |-> seat.last_activity_editor,
     status |-> IF IsTrue(seat.last_activity_editor) THEN "active"
                ELSE "inactive"]

\* copilot.py: "for member in members", from member i on
RECURSIVE MemberRows(_, _, _, _)
MemberRows(team, members, seats, i) ==
    IF i > Len(members) THEN <<>>
    ELSE LET member == members[i]
             info   == CopilotInfo(seats, member.login)
         IN  (IF member.type = "User" /\ info # 0
              THEN <<OutputRow(team, member.login, seats[info])>>
              ELSE <<>>)
                 \o MemberRows(team, members, seats, i + 1)

HeaderC == <<"enterprise_name", "team_name", "user_name",
             "copilot_activity", "last_active_editor", "status">>

\* csv.DictWriter: the text of a value, None being written as ""
CsvText(v) == IF v = Null THEN "" ELSE v

\* writer.writerow(row)
CsvRow(row) == [c \in 1..Len(HeaderC) |-> CsvText(row[HeaderC[c]])]

\* A paginator is called
PageCall(pgr, coll) ==
    /\ pager' = pgr
    /\ pages' = coll
    /\ url' = 1
    /\ acc' = <<>>
    /\ preq' = 0
    /\ ppc' = "loop"
    /\ pret' = <<>>

\* copilot.py main(): the run starts with get_teams(), whatever the
\* environment holds
CopilotStart ==
    /\ script = "copilot"
    /\ rpc = "start"
    /\ rpc' = "get_teams"
    /\ PageCall("get_teams", server.teams)
    /\ UNCHANGED <<script, pair, copilotVars,
                   fetchVars, env, futures, completed,
                   idx, all_data, files>>

\* A paginator at work inside main(); its exception ends the run
CopilotPage ==
    /\ script = "copilot"
    /\ rpc \in {"get_teams", "get_seats", "members"}
    /\ PageStep
    /\ rpc' = IF ppc' = "raised" THEN "crashed" ELSE rpc
    /\ UNCHANGED <<script, pair, copilotVars,
                   fetchVars, env, futures, completed,
                   idx, all_data, files>>

\* teams = get_teams(); get_copilot_billing_seats() is called
CopilotTeams ==
    /\ script = "copilot"
    /\ rpc = "get_teams"
    /\ ppc = "returned"
    /\ teams_c' = pret
    /\ rpc' = "get_seats"
    /\ PageCall("get_copilot_billing_seats", server.seats)
    /\ UNCHANGED <<script, pair,
                   fetchVars, env, futures, completed, idx, all_data,
                   files, server, copilot_seats, output_data>>

\* The loop over the teams goes to team i, or is over
ToTeam(i) ==
    IF i <= Len(teams_c')
    THEN /\ rpc' = "members"
         /\ PageCall("get_team_memberships", server.members[teams_c'[i].slug])
    ELSE /\ rpc' = "write"
         /\ UNCHANGED pageVars

\* copilot_seats = get_copilot_billing_seats(); the loop is entered
CopilotSeats ==
    /\ script = "copilot"
    /\ rpc = "get_seats"
    /\ ppc = "returned"
    /\ copilot_seats' = pret
    /\ teams_c' = teams_c
    /\ ToTeam(1)
    /\ UNCHANGED <<script, pair,
                   fetchVars, env, futures, completed, idx, all_data,
                   files, server, output_data>>

\* members = get_team_memberships(team_slug) and the loop over the members
CopilotMembers ==
    /\ script = "copilot"
    /\ rpc = "members"
    /\ ppc = "returned"
    /\ output_data' = output_data
                         \o MemberRows(teams_c[idx + 1], pret, copilot_seats, 1)
    /\ idx' = idx + 1
    /\ teams_c' = teams_c
    /\ ToTeam(idx + 2)
    /\ UNCHANGED <<script, pair, fetchVars, env, futures, completed, all_data,
                   files, server, copilot_seats>>

\* "if not output_data" and the write of the CSV file
CopilotWrite ==
    /\ script = "copilot"
    /\ rpc = "write"
    /\ files' = IF output_data = <<>> THEN files
                ELSE Written(files, 0, HeaderC,
                             Writer([j \in 1..Len(output_data) |->
                                        CsvRow(output_data[j])], ""))
    /\ rpc' = "done"
    /\ UNCHANGED <<script, pair, copilotVars, fetchVars, pageVars, env, futures,
                   completed, idx, all_data>>

InitCopilot ==
    /\ script = "copilot"
    /\ rpc = "start"
    /\ env \in SUBSET EnvNamesC
    /\ server \in IF EnvNamesC \subseteq env THEN Servers ELSE {Unauthorized}
    /\ teams_c = <<>>
    /\ copilot_seats = <<>>
    /\ output_data = <<>>
    /\ futures = <<>>
    /\ completed = <<>>
    /\ idx = 0
    /\ all_data = <<>>
    /\ files = NoFiles
    /\ PageIdle
    /\ FetchIdle
    /\ PairIdle

NextCopilot ==
    \/ CopilotStart
    \/ CopilotPage
    \/ CopilotTeams
    \/ CopilotSeats
    \/ CopilotMembers
    \/ CopilotWrite

\* One run of main() of copilot.py
SpecCopilot == InitCopilot /\ [][NextCopilot]_vars

\* The two fetch_copilot_usage on one sequence of responses
InitPair ==
    /\ script = "both"
    /\ pair = [responses |-> <<>>, m |-> Call("attempt", 0, 0, None),
               t |-> Call("attempt", 0, 0, None)]
    /\ FetchIdle
    /\ PageIdle
    /\ RunIdle
    /\ CopilotIdle

NextPair == PairStep

SpecPair == InitPair /\ [][NextPair]_vars

----------------------------------------------------------------------------
(* Claims about fetch_copilot_usage (SpecFetch) *)

\* C2 Retry exhaustion: while every response so far is a non-200 status
\* that is no rate-limit signal, the call has not raised, it goes on until
\* it has issued 5 requests, and with the 5th it returns None.
C2_RetryExhaustion ==
    (fpc # "idle" /\ seen \subseteq {"other"}) =>
        /\ fpc # "raised"
        /\ requests <= 5
        /\ requests < 5 => fpc = "attempt"
        /\ requests = 5 => fpc = "returned" /\ result = None

C2_Witness ==
    /\ script = "teams"
    /\ fpc = "returned"
    /\ seen = {"other"}
    /\ requests = 5
    /\ result = None

\* C5 Rate-limit wait: a request that follows a rate-limit response with
\* reset time T, received when int(time.time()) read now, is issued after
\* sleeps of at least max(T - now, 0) + 1 seconds and not before T; the
\* wait computed is never negative.
C5_RateLimitWait ==
    /\ prevRL.seen =>
         /\ prevRL.slept >= Max(prevRL.T - prevRL.now, 0) + 1
         /\ reqAt - prevRL.at >=
                (Max(prevRL.T - prevRL.now, 0) + 1) * TicksPerSec
         /\ reqAt >= prevRL.T * TicksPerSec
    /\ lastRL.seen =>
         /\ lastRL.waits # <<>>
         /\ \A i \in 1..Len(lastRL.waits) : lastRL.waits[i] >= 0

C5_Witness ==
    /\ prevRL.seen
    /\ prevRL.T > prevRL.now
    /\ requests >= 2
    /\ reqAt >= prevRL.T * TicksPerSec

\* C6 Rate limiting is never surfaced as a failure: after a rate-limit
\* response, if the server answers 200 to the request that follows the
\* wait, that request is issued (the call has not ended with None), and a
\* 200 that follows a rate-limit response is what the call returns.
C6_NeverSurfaced ==
    /\ (lastRL.seen /\ nextResp.kind = "http" /\ nextResp.status = 200)
           => fpc = "attempt"
    /\ (prevRL.seen /\ fpc = "returned" /\ ~lastRL.seen /\ "ok" \in seen)
           => result.tag = "json"

----------------------------------------------------------------------------
(* Claims about the paginators (SpecPage) *)

AllPagesOk == \A i \in 1..Len(pages) : pages[i].status = 200

\* The records of the first n pages, in page order
RECURSIVE FirstPages(_, _)
FirstPages(coll, n) ==
    IF n = 0 THEN <<>> ELSE FirstPages(coll, n - 1) \o coll[n].body

\* The list as the paginator hands it out
Shaped(pgr, recs) ==
    CASE pgr = "fetch_teams_m" -> IdName(recs)
      [] pgr = "fetch_teams_t" -> Ids(recs)
      [] OTHER                 -> recs

\* The list as the paginator accumulates it
Accumulated(pgr, recs) ==
    IF pgr = "fetch_teams_m" THEN IdName(recs) ELSE recs

\* C3 Pagination: when every page request succeeds, the paginator asks for
\* the N pages once each, in order, and returns the concatenation of their
\* records in page order.
C3_Pagination ==
    (ppc # "idle" /\ AllPagesOk) =>
        /\ ppc # "raised"
        /\ preq <= Len(pages)
        /\ ppc = "loop" =>
             /\ preq < Len(pages)
             /\ acc = Accumulated(pager, FirstPages(pages, preq))
        /\ ppc = "returned" =>
             /\ preq = Len(pages)
             /\ pret = Shaped(pager, FirstPages(pages, Len(pages)))

C3_Witness ==
    /\ pager = "fetch_teams_t"
    /\ ppc = "returned"
    /\ AllPagesOk
    /\ Len(pages) = 3
    /\ preq = 3
    /\ Len(pret) >= 3

\* A page request made so far was answered with a non-success status
PageFailed == \E i \in 1..preq : Serve(pages, i).status # 200

\* C7 Paginator failure: when a page request of fetch_teams is answered
\* with a non-success status, fetch_teams returns the empty list and asks
\* for no further page.
C7_EmptyOnFailure ==
    (pager \in {"fetch_teams_m", "fetch_teams_t"} /\ ppc # "idle"
       /\ PageFailed) =>
        /\ ppc = "returned"
        /\ pret = <<>>
        /\ \A i \in 1..(preq - 1) : Serve(pages, i).status = 200

----------------------------------------------------------------------------
(* Claims about the report (Spec, SpecWrite) *)

Resolved(i) == futures[i].state = "resolved"

\* The data rows of the file the rows of team i go to
FileKey(i) == IF script = "metrics" THEN 0 ELSE futures[i].team
FileRows(k) == IF k \in DOMAIN files THEN files[k].rows ELSE <<>>
IdText(i) == ToString(TeamId(script, futures[i].team))
RowsOfTeam(i) ==
    SelectSeq(FileRows(FileKey(i)), LAMBDA r : r[1] = IdText(i))

Col(header, name) == CHOOSE c \in 1..Len(header) : header[c] = name
HeaderOf(scr) == IF scr = "metrics" THEN HeaderM ELSE HeaderT
Cell(r, name) == r[Col(HeaderOf(script), name)]

\* C1 No silent drops: when the run is done, the CSV output holds a data
\* row for every team fetch_teams returned, whatever its detail fetch gave.
C1_NoSilentDrops ==
    rpc = "done" =>
        \A i \in 1..Len(futures) :
            \E k \in DOMAIN files : \E j \in 1..Len(files[k].rows) :
                files[k].rows[j][1] = IdText(i)

\* C8 Sibling isolation: once a detail fetch has ended with None (and none
\* has raised), the run neither stops nor crashes; when it is done every
\* team's fetch has been made and the rows of every team that has data are
\* in the output, as write_to_csv makes them for that team alone.
SomeNone == \E i \in 1..Len(futures) : Resolved(i) /\ futures[i].value = None
NoneRaised ==
    \A i \in 1..Len(futures) : futures[i].value.tag # "RequestException"

RowsAlone(i) ==
    IF script = "metrics"
    THEN WriteCsvM(<<Entry(futures[i].team, futures[i].value)>>).rows
    ELSE WriteCsvT(futures[i].team, futures[i].value.data).rows

C8_SiblingIsolation ==
    (SomeNone /\ NoneRaised) =>
        /\ rpc # "crashed"
        /\ rpc # "done" => ENABLED Next
        /\ rpc = "done" =>
             \A j \in 1..Len(futures) :
                /\ Resolved(j)
                /\ Truthy(futures[j].value) =>
                     /\ FileKey(j) \in DOMAIN files
                     /\ RowsOfTeam(j) = RowsAlone(j)

C8_Witness ==
    /\ rpc = "done"
    /\ Len(futures) >= 2
    /\ futures[1].value = None
    /\ Resolved(2)
    /\ Truthy(futures[2].value)
    /\ RowsOfTeam(2) # <<>>

\* The day entries of team i without breakdown list, or with an empty one
NoBreakdown(ue) == ~Has(ue, "breakdown") \/ ue.breakdown = <<>>

DayRows(i, ue) ==
    SelectSeq(RowsOfTeam(i), LAMBDA r : Cell(r, "day") = ue.day)

\* C4 Missing-breakdown day: when the run is done, every day entry without
\* breakdown has exactly one row, whose language and editor are the
\* sentinel and whose breakdown counts are 0, and the write of its team's
\* rows has not failed.
C4_MissingBreakdownDay ==
    rpc = "done" =>
        \A i \in 1..Len(futures) :
            Truthy(futures[i].value) =>
               \A d \in 1..Len(futures[i].value.data) :
                  LET ue == futures[i].value.data[d]
                  IN  NoBreakdown(ue) =>
                        /\ FileKey(i) \in DOMAIN files
                        /\ files[FileKey(i)].raised = ""
                        /\ Len(DayRows(i, ue)) = 1
                        /\ Cell(DayRows(i, ue)[1], "language") = NoData
                        /\ Cell(DayRows(i, ue)[1], "editor") = NoData
                        /\ \A c \in 3..Len(BreakdownKeys) :
                              Cell(DayRows(i, ue)[1], BreakdownKeys[c]) = "0"

\* The cell the header's field k has for a team, a day entry and a
\* breakdown entry, an absent field being 0 or the sentinel
Empty == [k \in {} |-> 0]

FieldValue(i, ue, bd, k) ==
    CASE k = "team_id"   -> IdText(i)
      [] k = "team_name" -> TeamName(script, futures[i].team)
      [] k = "day"       -> Get(ue, k, NoData)
      [] k \in {"language", "editor"} -> Get(bd, k, NoData)
      [] k \in {TotalKeys[c] : c \in 1..Len(TotalKeys)} -> Get(ue, k, "0")
      [] OTHER -> Get(bd, k, "0")

ShapedRow(i, ue, bd) ==
    [c \in 1..Len(HeaderOf(script)) |->
        FieldValue(i, ue, bd, HeaderOf(script)[c])]

DaysOf(i) ==
    IF Truthy(futures[i].value)
    THEN {futures[i].value.data[d] : d \in 1..Len(futures[i].value.data)}
    ELSE {}

BreakdownsOf(ue) ==
    IF Has(ue, "breakdown")
    THEN {ue.breakdown[c] : c \in 1..Len(ue.breakdown)} ELSE {}

\* C9 Row shape: the write does not fail, and every data row has the
\* fields of the header, in the header's order: it is the row of a team
\* with a day entry and a breakdown entry, of a day entry without
\* breakdown, or of a team without data.
C9_RowShape ==
    /\ \A k \in DOMAIN files : files[k].raised = ""
    /\ \A k \in DOMAIN files : \A j \in 1..Len(files[k].rows) :
          /\ Len(files[k].rows[j]) = Len(files[k].header)
          /\ \E i \in 1..Len(futures) :
               \E ue \in DaysOf(i) \cup {Empty} :
                  \E bd \in BreakdownsOf(ue) \cup {Empty} :
                     files[k].rows[j] = ShapedRow(i, ue, bd)

\* C10 Placeholder row: in copilot-metrics.py a team whose payload is the
\* "No Data" placeholder has exactly one row, with 0 in the eight total
\* columns and the five breakdown count columns and "No Data" in the
\* language and editor columns.
C10_PlaceholderRow ==
    (script = "metrics" /\ rpc = "done") =>
        \A i \in 1..Len(futures) :
            ~Truthy(futures[i].value) =>
                /\ Len(RowsOfTeam(i)) = 1
                /\ \A c \in 1..Len(TotalKeys) :
                      Cell(RowsOfTeam(i)[1], TotalKeys[c]) = "0"
                /\ \A c \in 3..Len(BreakdownKeys) :
                      Cell(RowsOfTeam(i)[1], BreakdownKeys[c]) = "0"
                /\ Cell(RowsOfTeam(i)[1], "language") = NoData
                /\ Cell(RowsOfTeam(i)[1], "editor") = NoData

----------------------------------------------------------------------------
(* Claims about the order of fetches and writes (Spec) *)

\* C11 Write-after-fetch ordering: a CSV file exists only once every detail
\* fetch of the run has resolved: no call submitted or still to be made is
\* pending or running when write_to_csv has been called.
C11_WriteAfterFetch ==
    files # NoFiles => \A i \in 1..Len(futures) : Resolved(i)

----------------------------------------------------------------------------
(* Further claims about fetch_copilot_usage (SpecFetch) *)

\* C12 The fetcher never raises: whatever the HTTP calls give, exceptions
\* of the network included, the call propagates no exception; an exception
\* costs an attempt like a failure status, so that a call that has seen
\* exceptions and failures only ends with None at the 5th request.
C12_NeverRaises ==
    /\ fpc # "raised"
    /\ (fpc # "idle" /\ seen \subseteq {"exc", "other"}) =>
          /\ requests < 5 => fpc = "attempt"
          /\ requests = 5 => fpc = "returned" /\ result = None

----------------------------------------------------------------------------
(* Claims about the configuration (SpecCopilot) *)

\* The environment variables a script reads
Reads(scr) == IF scr = "copilot" THEN EnvNamesC ELSE Required(scr)

\* C13 ConfigMissing is fatal before any network activity: when a variable
\* the script reads from the environment is absent, no page request and no
\* detail fetch is made, no CSV file is written, and the run does not end
\* with an exception.
C13_ConfigMissingIsFatal ==
    ~(Reads(script) \subseteq env) =>
        /\ preq = 0
        /\ rpc # "crashed"
        /\ futures = <<>>
        /\ files = NoFiles

----------------------------------------------------------------------------
(* Claims about the report as a function of the responses (Spec) *)

\* The teams of the run whose detail fetch gave a payload
WithData == {i \in 1..Len(futures) : Truthy(futures[i].value)}

FileOf(header, w) == [header |-> header, rows |-> w.rows, raised |-> w.err]

\* The files the responses of a run determine: what fetch_teams returned
\* and what the detail fetch of each team returned, taken in the order of
\* the teams, with no regard to the order in which the fetches completed
ExpectedFiles ==
    IF script = "metrics"
    THEN IF futures = <<>> THEN NoFiles
         ELSE [k \in {0} |->
                 FileOf(HeaderM,
                        WriteCsvM([i \in 1..Len(futures) |->
                                     Entry(futures[i].team,
                                           futures[i].value)]))]
    ELSE [k \in {futures[i].team : i \in WithData} |->
             LET i == CHOOSE j \in WithData : futures[j].team = k
             IN  FileOf(HeaderT, WriteCsvT(k, futures[i].value.data))]

\* What an iteration of fetch_copilot_usage decides: the counter, how the
\* loop goes on and the value returned
Decision(it) == <<it.retry_count, it.outcome, it.value>>

\* The decision of an iteration is the same at every clock reading (it is
\* the decision taken at reading 0)
ClockFree ==
    \A rc \in 0..(max_retries - 1), r \in DetailResponses(0) :
        \A now \in 1..(2 * MaxOffset) :
            Decision(FetchIter(script, rc, r, now))
                = Decision(FetchIter(script, rc, r, 0))

\* C14 Determinism of the report: when the run is done, the CSV files and
\* their rows are those the responses determine (the team list and the
\* outcome of each team's fetch), whatever the order in which the workers
\* completed; what an iteration of the fetch decides does not depend on the
\* clock reading, which only sets the length of the sleep.
C14_Determinism ==
    /\ rpc = "done" => files = ExpectedFiles
    /\ rpc = "start" => ClockFree

C14_Witness ==
    /\ script = "teams"
    /\ rpc = "done"
    /\ completed = <<2, 1>>
    /\ WithData = {1, 2}
    /\ DOMAIN files = {1, 2}
    /\ files[1].rows # <<>>
    /\ files[2].rows # <<>>

----------------------------------------------------------------------------
(* Claims about the dispatch loop of copilot-metrics-teams.py (Spec) *)

\* The futures main() has taken from as_completed so far
Handled == {completed[j] : j \in 1..idx}

\* C15 Dispatcher pairing: in copilot-metrics-teams.py every team id that
\* fetch_teams returned has one future, made for that id; a future is
\* handled once, after it has resolved, and under its own team id: its
\* payload is in the file of that id, as write_to_csv makes it for that id,
\* and a future without payload leaves no file; main() is done only when
\* every future has resolved and has been handled.
C15_DispatcherPairing ==
    (script = "teams" /\ rpc \in {"collect", "done"}) =>
        /\ Len(futures) = Len(pret)
        /\ \A i \in 1..Len(futures) : futures[i].team = pret[i]
        /\ \A j, k \in 1..Len(completed) :
              completed[j] = completed[k] => j = k
        /\ idx <= Len(completed)
        /\ \A i \in Handled :
              /\ Resolved(i)
              /\ IF Truthy(futures[i].value)
                 THEN /\ futures[i].team \in DOMAIN files
                      /\ files[futures[i].team] =
                            FileOf(HeaderT,
                                   WriteCsvT(futures[i].team,
                                             futures[i].value.data))
                 ELSE futures[i].team \notin DOMAIN files
        /\ DOMAIN files \subseteq {futures[i].team : i \in Handled}
        /\ rpc = "done" =>
              /\ \A i \in 1..Len(futures) : Resolved(i)
              /\ Handled = 1..Len(futures)

C15_Witness ==
    /\ script = "teams"
    /\ rpc = "done"
    /\ completed = <<2, 1>>
    /\ idx = 2
    /\ futures[2].value = None
    /\ Truthy(futures[1].value)
    /\ DOMAIN files = {futures[1].team}

----------------------------------------------------------------------------
(* Claims about the retry loop of fetch_copilot_usage (SpecFetch) *)

\* C16 Retry budget under rate limiting: in copilot-metrics-teams.py an
\* iteration that ends in a rate-limit wait leaves retry_count as it was:
\* while every response so far was a rate-limit response, retry_count is 0
\* and the call goes on asking.
C16_RateLimitKeepsBudget ==
    (script = "teams" /\ fpc # "idle" /\ seen = {"rl"}) =>
        /\ retry_count = 0
        /\ fpc = "attempt"

\* C17 Fetcher state machine: after a rate-limit response the call sleeps
\* once, for the rate-limit wait, before it asks again: one wait is
\* computed and the time slept is that wait, with no backoff added.
C17_OneSleepAfterRateLimit ==
    lastRL.seen =>
        /\ Len(lastRL.waits) = 1
        /\ lastRL.slept = lastRL.waits[1]

\* C18 Bounded retry: a call issues at most 5 requests: while it goes on
\* it has made fewer than 5, one for each unit of retry_count, and none of
\* them was answered with 200; once a 200 has come the call has returned
\* its payload, and with that no further request is made.
C18_BoundedRetry ==
    /\ requests <= 5
    /\ fpc = "attempt" =>
          /\ requests < 5
          /\ requests = retry_count
          /\ "ok" \notin seen
    /\ "ok" \in seen => fpc = "returned" /\ result.tag = "json"
    /\ fpc # "attempt" => ~ENABLED FetchStep

C18_Witness ==
    /\ fpc = "returned"
    /\ requests = 5
    /\ seen = {"rl", "other", "ok"}
    /\ result.tag = "json"

----------------------------------------------------------------------------
(* Claims about the two fetch_copilot_usage (SpecPair) *)

\* C19 Outcome equivalence: on every sequence of responses without
\* exception, the call of copilot-metrics.py and that of
\* copilot-metrics-teams.py have issued the same number of requests, have
\* both ended or both not, and have returned the same value.
C19_OutcomeEquivalent ==
    /\ pair.m.requests = pair.t.requests
    /\ pair.m.pc = pair.t.pc
    /\ pair.m.pc # "raised"
    /\ pair.m.result = pair.t.result

C19_Witness ==
    /\ pair.m.pc = "returned"
    /\ pair.t.pc = "returned"
    /\ pair.m.requests = 4
    /\ pair.m.result = Json(<<Day("d1", OneBreakdown)>>)
    /\ pair.t.result = pair.m.result
    /\ pair.responses[1] = RateLimit(MaxOffset)
    /\ pair.responses[2] = ServerError
    /\ pair.responses[3] = ForbiddenBare

----------------------------------------------------------------------------
(* Claims about the seat report of copilot.py (SpecCopilot) *)

TeamsServed == Records(server.teams)
SeatsServed == Records(server.seats)
MembersServed(i) == Records(server.members[TeamsServed[i].slug])

\* Some seat is assigned to the login
HasSeat(login) ==
    \E k \in 1..Len(SeatsServed) : Assigned(SeatsServed[k], login)

\* The first seat, in the order of the seat list, assigned to the login
SeatFor(login) ==
    SeatsServed[CHOOSE k \in 1..Len(SeatsServed) :
                   /\ Assigned(SeatsServed[k], login)
                   /\ \A h \in 1..(k - 1) : ~Assigned(SeatsServed[h], login)]

\* The (team, member) pairs that give a row
Qualifying ==
    UNION { { <<i, j>> : j \in {m \in 1..Len(MembersServed(i)) :
                                  /\ MembersServed(i)[m].type = "User"
                                  /\ HasSeat(MembersServed(i)[m].login)} }
            : i \in 1..Len(TeamsServed) }

\* Team order, then member order
Before(p, q) == p[1] < q[1] \/ (p[1] = q[1] /\ p[2] < q[2])

Rank(q) == Cardinality({p \in Qualifying : Before(p, q)}) + 1

ReportRows == FileRows(0)

CellC(r, name) == r[Col(HeaderC, name)]

\* C20 Seat report: when copilot.py is done, the rows of its report are
\* the (team, member) pairs, in team order then member order, whose member
\* has type User and a seat assigned to its login; the row of a pair names
\* the team and the login, has the activity fields of the first seat
\* assigned to the login, and has status active exactly when that seat's
\* last_activity_editor is neither null nor empty.
C20_SeatReport ==
    (script = "copilot" /\ rpc = "done") =>
        /\ Len(ReportRows) = Cardinality(Qualifying)
        /\ \A q \in Qualifying :
              LET member == MembersServed(q[1])[q[2]]
                  seat   == SeatFor(member.login)
                  row    == ReportRows[Rank(q)]
              IN  /\ CellC(row, "enterprise_name") = ENTERPRISE_SLUG
                  /\ CellC(row, "team_name") = TeamsServed[q[1]].name
                  /\ CellC(row, "user_name") = member.login
                  /\ CellC(row, "copilot_activity")
                        = CsvText(seat.last_activity_at)
                  /\ CellC(row, "last_active_editor")
                        = CsvText(seat.last_activity_editor)
                  /\ CellC(row, "status") = "active"
                        <=> seat.last_activity_editor \notin {Null, ""}
                  /\ CellC(row, "status") \in {"active", "inactive"}

C20_Witness ==
    /\ script = "copilot"
    /\ rpc = "done"
    /\ Len(ReportRows) = 3
    /\ CellC(ReportRows[1], "user_name") = "b"
    /\ CellC(ReportRows[2], "user_name") = "a"
    /\ CellC(ReportRows[2], "status") = "inactive"
    /\ CellC(ReportRows[3], "user_name") = "a"
    /\ CellC(ReportRows[3], "team_name") # CellC(ReportRows[2], "team_name")
    /\ Len(SeatsServed) = 3

====
